---- MODULE Spec2Model ----
(***************************************************************************)
(* A model of src/gibbs.py: the Gibbs-sampling shape-motif finder          *)
(* (gibbs_motif_extension_finder), its driver (main), and the motif-range  *)
(* model and occurrence scanner (compute_ranges, list_motif_occurrences,   *)
(* count_occurrences).                                                     *)
(*                                                                         *)
(* Conventions.  Python lists are TLA+ sequences; a Python index p is the  *)
(* TLA+ index p+1 (operator At).  Profile values are integers, so that     *)
(* sums of squares are exact.  float("inf") is the value Inf, and the      *)
(* three comparisons the code makes with it are the operators NotEqual,    *)
(* GreaterThan and AboveThreshold.                                         *)
(*                                                                         *)
(* Randomness.  The code draws from two generators: Python's `random`      *)
(* module (random.randint, line 54), which main seeds with                 *)
(* random.seed(output_dir) (line 284), and numpy's global generator, which *)
(* scipy's rv_discrete(...).rvs draws from (line 107) and which nothing in *)
(* the program seeds.  The first is the state variable py_rng: once        *)
(* seeded, its draws are those of CPython 2.7's random module (the         *)
(* interpreter main is written for: line 231 takes len() of map()), a      *)
(* function of the seed and of the outputs consumed so far; before         *)
(* random.seed is called its state comes from the operating system and a   *)
(* draw can be any value of the range.  A draw of the second is a          *)
(* nondeterministic choice among the candidates whose table probability is *)
(* not zero.                                                               *)
(***************************************************************************)
EXTENDS Integers, Sequences, FiniteSets, TLC

\* ------------------------------------------------------------ constants

\* line 29: max_consecutive_iters_wo_improvement = 10
max_consecutive_iters_wo_improvement == 10

\* line 32: epsilon_factor_improvement = 1e-5, kept as its reciprocal
EpsilonReciprocal == 100000

\* line 57: float("inf"); every score is a sum of squares, so never negative
Inf == -1

\* line 97: math.exp(x) is 0.0 for x below about -745.13 (IEEE double), so
\* a candidate whose score lies more than 745 under the maximum gets
\* probability exactly 0 and is never sampled
ExpUnderflow == 745

\* line 291: for extent in range(0, 5)
NumExtents == 5

\* ------------------------------------------------------------ bounds

\* output_dir (argv[7]), the string handed to random.seed, ranges over the
\* first MaxOutputDir + 1 names of OutputDirNames
MaxOutputDir == 1

\* max_iter (argv[4]) ranges over 1..MaxIter
MaxIter == 1

\* the extent of a direct call of gibbs_motif_extension_finder: 0..MaxExtentArg
MaxExtentArg == 1

\* a direct call's seed offsets range over -SeedSlack .. seq_len + SeedSlack
SeedSlack == 1

\* sigma_count ranges over 0..MaxSigma
MaxSigma == 2

\* ------------------------------------------------------------ helpers

Min(a, b) == IF a < b THEN a ELSE b

Max(a, b) == IF a > b THEN a ELSE b

\* Python s[p]
At(s, p) == IF p < 0 THEN s[Len(s) + p + 1] ELSE s[p + 1]

\* Python s[a : a + n] for a >= 0 (a slice is cut at the end of the list)
Slice(s, a, n) == SubSeq(s, a + 1, Min(a + n, Len(s)))

\* Python range(a, b) as a sequence
Range(a, b) == [x \in 1..Max(b - a, 0) |-> a + x - 1]

\* F(1) + ... + F(n): the accumulation of a for loop
RECURSIVE SumOver(_, _)
SumOver(F(_), n) == IF n <= 0 THEN 0 ELSE SumOver(F, n - 1) + F(n)

\* lines 12-20
distance(x, y) ==
    SumOver(LAMBDA p : (x[p] - y[p]) * (x[p] - y[p]), Len(x))

\* ------------------------------------------------------------ inputs

\* Profile sets handed to the finder (main reads them with read_shape_data,
\* line 262).  Every set holds profiles of one length.

\* two profiles of length 4
SmallSet == << <<0, 1, 3, 1>>, <<2, 0, 1, 3>> >>

\* three profiles of length 3
TripleSet == << <<0, 1, 2>>, <<1, 2, 0>>, <<2, 0, 1>> >>

\* two profiles whose values lie so far apart that math.exp underflows
FarSet == << <<0, 0, 40>>, <<0, 40, 0>> >>

\* five profiles [t, 0, t] (one of them lifted by 1000): with windows of
\* size 2 the total pairwise distance takes 16 values between 8098744 and
\* 8099224, so that one sweep can improve it by less than 1e-5 of itself
PlateauSet ==
    << <<1, 0, 1>>, <<2, 0, 2>>, <<4, 0, 4>>, <<8, 0, 8>>,
       <<1016, 1000, 1016>> >>

\* one profile of length 5, and two of length 5: the shortest that main can
\* extend a motif of length 1 in
SingleSet == << <<3, 1, 4, 1, 5>> >>

PairSet == << <<0, 30, 0, 30, 1>>, <<30, 0, 30, 1, 0>> >>

\* the arguments of a direct call of gibbs_motif_extension_finder
SeedValues(P) == (0 - SeedSlack)..(Len(P[1]) + SeedSlack)

SeedArgs(P) ==
    {<<>>} \cup [1..Len(P) -> SeedValues(P)]
           \cup [1..(Len(P) - 1) -> SeedValues(P)]

FinderInputs ==
    {[shape_data |-> SmallSet, motif_len |-> w, seed_motif |-> s, extent |-> e] :
        w \in 1..2, s \in SeedArgs(SmallSet), e \in 0..MaxExtentArg}
    \cup
    {[shape_data |-> P, motif_len |-> w, seed_motif |-> <<>>, extent |-> e] :
        P \in {TripleSet, FarSet}, w \in 1..2, e \in 0..MaxExtentArg}
    \cup
    {[shape_data |-> PlateauSet, motif_len |-> 2, seed_motif |-> <<>>, extent |-> 0]}

\* the arguments of main: chip_shape_data, window_size (argv[3]),
\* max_iter (argv[4]), output_dir (argv[7])
MainInputs ==
    {[shape_data |-> P, motif_len |-> w, max_iter |-> m] :
        P \in {SingleSet, PairSet}, w \in 1..2, m \in 1..MaxIter}

\* ------------------------------------------------------------ state

VARIABLES
    entry,          \* the function called from outside: "main" or "finder"
    call_site,      \* the line of main that called the finder (0: none)
    pc,             \* the control position
    shape_data,     \* the ProfileSet (chip_shape_data in main)
    motif_len,      \* the finder's motif_len (window_size in main)
    seed_motif,     \* the finder's seed_motif
    extent,         \* the finder's extent
    start_locs,     \* lines 35-49
    end_locs,       \* lines 36-49
    window_locs,    \* lines 52-54, 121, 127, 135
    cur_window_locs,\* lines 60, 108
    i,              \* the sweep's loop index (line 63)
    score_table,    \* lines 69-105: the probabilities of the last resample
    all_pair_distance,                    \* lines 57, 126, 134
    n_consecutive_iters_wo_improvement,   \* lines 30, 128, 136
    py_rng,         \* the state of Python's random module
    output_dir,     \* argv[7], the string given to random.seed ("": none)
    max_iter,       \* argv[4]
    iter_count,     \* line 286
    extended_motif_window_locs,           \* lines 290, 293
    motif_instance_file,                  \* lines 280, 302-306
    run_no,         \* 1 in the program's first run, 2 in a second run
    prev_results,   \* the first run's result sets, kept for the second
    scan_data,      \* count_occurrences' shape_data
    motif_window_locs,  \* compute_ranges' motif_window_locs
    sigma_count,    \* compute_ranges' sigma_count
    motif_as_range, \* the result of compute_ranges
    occurrence_count,   \* lines 203, 210
    occurrence_dict     \* lines 204, 211

finder_vars ==
    <<shape_data, motif_len, seed_motif, extent, start_locs, end_locs,
      window_locs, cur_window_locs, i, score_table, all_pair_distance,
      n_consecutive_iters_wo_improvement>>

main_vars ==
    <<output_dir, max_iter, iter_count, extended_motif_window_locs,
      motif_instance_file, run_no, prev_results>>

scan_vars ==
    <<scan_data, motif_window_locs, sigma_count, motif_as_range,
      occurrence_count, occurrence_dict>>

vars == <<entry, call_site, pc, finder_vars, py_rng, main_vars, scan_vars>>

\* line 24
n_seq == Len(shape_data)

\* line 25
seq_len == Len(shape_data[1])

\* line 26
window_size == motif_len + extent

\* ------------------------------------------------------------ random

\* The values argv[7] takes.
OutputDirNames == <<"0", "1", "2">>

OutputDirs == {OutputDirNames[d + 1] : d \in 0..MaxOutputDir}

\* The Mersenne Twister after random.seed(x), x a string (CPython 2.7
\* seeds it from hash(x)): floor(r * 720720) for the value r of each of the
\* first 32 calls of random.random().  720720 is the least common multiple
\* of 1..16, so floor(r * n) = floor(r * 720720) \div (720720 \div n) for
\* every n of 1..16.
MTRandom(x) ==
    CASE x = "0" ->
        <<
           115953, 618705, 158365, 29591, 539850, 455297, 91080, 36529,
           150540, 43579, 373924, 561323, 109212, 219240, 630495, 255426,
           229933, 222974, 175923, 312633, 130327, 155511, 564360, 56604,
           199929, 627735, 700979, 413987, 365661, 329587, 382965, 154861 >>
      [] x = "1" ->
        <<
           50337, 200161, 600385, 256359, 262098, 520711, 694149, 190071,
           325046, 71983, 35005, 5086, 262438, 83184, 278556, 644634,
           654516, 536204, 377387, 565397, 553286, 665866, 265286, 706794,
           229354, 327190, 159942, 84214, 627873, 164816, 625518, 509905 >>
      [] x = "2" ->
        <<
           803, 103486, 644023, 672983, 287553, 175773, 548745, 666762,
           682491, 225324, 263438, 383406, 132764, 356851, 551769, 341383,
           381971, 114906, 554940, 603170, 278764, 456592, 325394, 121453,
           412685, 489795, 429289, 186440, 644122, 378209, 353056, 570886 >>

\* the generator of a process that has not called random.seed: its state
\* was taken from the operating system when the module was imported
PyUnseeded == [seeded |-> FALSE, seed |-> "", pos |-> 0]

\* line 284: random.seed(x) puts the generator in the state that x fixes;
\* pos counts the 32-bit outputs consumed since
PySeed(x) == [seeded |-> TRUE, seed |-> x, pos |-> 0]

\* random.random() consumes two outputs
PyNext(rng) == [rng EXCEPT !.pos = rng.pos + 2]

\* int(random.random() * n) of a seeded generator, for n in 1..16
RandBelow(rng, n) ==
    CASE n \in 1..16 ->
        MTRandom(rng.seed)[(rng.pos \div 2) + 1] \div (720720 \div n)

\* random.randint(a, b) for a <= b, an integer N with a <= N <= b
\* (a + int(random() * (b - a + 1))): the draws it can make, each with the
\* state it leaves the generator in
PyRandint(rng, a, b) ==
    IF rng.seeded
    THEN {[value |-> a + RandBelow(rng, b - a + 1), rng |-> PyNext(rng)]}
    ELSE {[value |-> v, rng |-> rng] : v \in a..b}

\* a variant that draws without the range check: an empty range yields its
\* start
RECURSIVE InitialLocs_Unchecked(_, _, _, _)
InitialLocs_Unchecked(starts, ends, rng, acc) ==
    IF Len(acc) = Len(starts)
    THEN {[ok |-> TRUE, locs |-> acc, rng |-> rng]}
    ELSE LET k == Len(acc) + 1 IN
         IF starts[k] > ends[k]
         THEN InitialLocs_Unchecked(starts, ends, rng, Append(acc, starts[k]))
         ELSE UNION {InitialLocs_Unchecked(starts, ends, d.rng,
                                           Append(acc, d.value)) :
                         d \in PyRandint(rng, starts[k], ends[k])}

\* lines 52-54: the draws of the initial window locations, in sequence
\* order, as the set of outcomes.  random.randint(a, b) raises ValueError
\* when a > b (an empty range): the draws made before it have advanced the
\* generator.
RECURSIVE InitialLocs(_, _, _, _)
InitialLocs(starts, ends, rng, acc) ==
    IF Len(acc) = Len(starts)
    THEN {[ok |-> TRUE, locs |-> acc, rng |-> rng]}
    ELSE LET k == Len(acc) + 1 IN
         IF starts[k] > ends[k]
         THEN {[ok |-> FALSE, locs |-> acc, rng |-> rng]}
         ELSE UNION {InitialLocs(starts, ends, d.rng, Append(acc, d.value)) :
                         d \in PyRandint(rng, starts[k], ends[k])}

\* ------------------------------------------------------------ finder

\* lines 41-44
StartLoc(seed, ws) == IF seed - ws < 0 THEN 0 ELSE seed - ws

\* a variant without the clamp to the profile's end
EndLoc_Unclamped(seed, ws, len) == seed + ws

\* lines 46-49
EndLoc(seed, ws, len) == IF seed + 2 * ws >= len THEN len - ws ELSE seed + ws

\* lines 35-49: the search bounds of every sequence
StartLocs ==
    IF Len(seed_motif) = n_seq
    THEN [k \in 1..n_seq |-> StartLoc(seed_motif[k], window_size)]
    ELSE [k \in 1..n_seq |-> 0]

EndLocs ==
    IF Len(seed_motif) = n_seq
    THEN [k \in 1..n_seq |-> EndLoc(seed_motif[k], window_size, seq_len)]
    ELSE [k \in 1..n_seq |-> seq_len - window_size]

\* a variant that reads the snapshot taken when the sweep began
SolutionLocs_Snapshot == window_locs

\* line 76: the window locations of the other sequences that a candidate of
\* the sequence being resampled is scored against
SolutionLocs == cur_window_locs

\* lines 72-79: the score of candidate j of sequence s (Python index)
\* against the windows of the other sequences at locs
Score(s, j, locs) ==
    0 - SumOver(LAMBDA k :
                  IF k - 1 # s
                  THEN distance(Slice(At(shape_data, s), j, window_size),
                                Slice(shape_data[k], locs[k], window_size))
                  ELSE 0,
                n_seq)

\* lines 71, 78: candidate_table
CandidateTable(s) == Range(At(start_locs, s), At(end_locs, s) + 1)

\* lines 71-79: score_table as line 79 fills it, parallel to
\* candidate_table
ScoreTable(s, locs) ==
    [c \in 1..Len(CandidateTable(s)) |-> Score(s, CandidateTable(s)[c], locs)]

\* line 93
MaxOf(table) == CHOOSE m \in {table[c] : c \in 1..Len(table)} :
                    \A c \in 1..Len(table) : table[c] <= m

\* lines 95-105: score_table as the loops leave it, the probabilities
\* exp(score - max_score) / score_sum.  An entry is kept as its exponent
\* e = score - max_score (line 96) and stands for exp(e) / sum of exp(e')
\* over the table.
ProbabilityTable(table) ==
    [c \in 1..Len(table) |-> table[c] - MaxOf(table)]

\* line 107: the candidates rv_discrete can return, those whose probability
\* is not 0
Samples(s, probs) ==
    {CandidateTable(s)[c] : c \in {d \in 1..Len(probs) :
                                     0 - probs[d] <= ExpUnderflow}}

\* lines 110-115
AllPairDistance(locs) ==
    SumOver(LAMBDA a :
        SumOver(LAMBDA b :
            IF b > a
            THEN distance(Slice(shape_data[a], locs[a], window_size),
                          Slice(shape_data[b], locs[b], window_size))
            ELSE 0,
            n_seq),
        n_seq)

\* line 120: cur != best, for a finite cur
NotEqual(cur, best) == best = Inf \/ cur # best

\* line 125: cur > best, for a finite cur
GreaterThan(cur, best) == best # Inf /\ cur > best

\* a variant with an absolute threshold, cur > best - 1e-5
AboveThreshold_Absolute(cur, best) == best # Inf /\ cur >= best

\* line 125: cur > best * (1 - 1e-5), for a finite cur, in exact arithmetic:
\* inf * (1 - 1e-5) is inf; otherwise best - cur < best / 100000
AboveThreshold(cur, best) ==
    /\ best # Inf
    /\ \/ cur > best
       \/ best - cur <= (best - 1) \div EpsilonReciprocal

\* a variant that stops one sweep late
PatienceExhausted_Late(n) == n > max_consecutive_iters_wo_improvement

\* line 129
PatienceExhausted(n) == n = max_consecutive_iters_wo_improvement

\* lines 24-49 and 30: the call's locals up to the search bounds
FinderBounds ==
    /\ pc = "enter"
    /\ start_locs' = StartLocs
    /\ end_locs' = EndLocs
    /\ n_consecutive_iters_wo_improvement' = 0
    /\ window_locs' = <<>>
    /\ cur_window_locs' = <<>>
    /\ score_table' = <<>>
    /\ i' = 0
    /\ all_pair_distance' = Inf
    /\ pc' = "draw"
    /\ UNCHANGED <<entry, call_site, shape_data, motif_len, seed_motif, extent, py_rng,
                   main_vars, scan_vars>>

\* lines 52-60: the initial window locations, all_pair_distance = inf and
\* the first sweep's copy of window_locs; ValueError from random.randint
\* leaves the function (and main) through the exception
InitialDraw ==
    /\ pc = "draw"
    /\ \E r \in InitialLocs(start_locs, end_locs, py_rng, <<>>) :
         /\ window_locs' = r.locs
         /\ py_rng' = r.rng
         /\ cur_window_locs' = IF r.ok THEN r.locs ELSE cur_window_locs
         /\ pc' = IF r.ok THEN "sweep" ELSE "error"
    /\ UNCHANGED <<entry, call_site, shape_data, motif_len, seed_motif, extent,
                   start_locs, end_locs, i, score_table, all_pair_distance,
                   n_consecutive_iters_wo_improvement, main_vars,
                   scan_vars>>

\* lines 63-108, one pass of the loop body: sequence i is scored against
\* the other sequences' windows, the scores are turned into probabilities
\* and its location is resampled
Resample ==
    /\ pc = "sweep"
    /\ i < n_seq
    /\ \E raw_scores \in {ScoreTable(i, SolutionLocs)} :
         score_table' = ProbabilityTable(raw_scores)
    /\ \E sample \in Samples(i, score_table') :
         cur_window_locs' = [cur_window_locs EXCEPT ![i + 1] = sample]
    /\ i' = i + 1
    /\ pc' = IF i + 1 = n_seq THEN "decide" ELSE "sweep"
    /\ UNCHANGED <<entry, call_site, shape_data, motif_len, seed_motif, extent,
                   start_locs, end_locs, window_locs, all_pair_distance,
                   n_consecutive_iters_wo_improvement, py_rng, main_vars,
                   scan_vars>>

\* lines 110-136 (and line 60 of the next sweep): the sweep's total
\* pairwise distance and the decision to stop or to go on
Decide ==
    /\ pc = "decide"
    /\ LET cur == AllPairDistance(cur_window_locs) IN
         IF ~ NotEqual(cur, all_pair_distance)
         THEN /\ window_locs' = cur_window_locs
              /\ pc' = "return"
              /\ UNCHANGED <<all_pair_distance,
                             n_consecutive_iters_wo_improvement, i>>
         ELSE IF (~ GreaterThan(cur, all_pair_distance))
                 /\ AboveThreshold(cur, all_pair_distance)
         THEN /\ all_pair_distance' = cur
              /\ window_locs' = cur_window_locs
              /\ n_consecutive_iters_wo_improvement' =
                     n_consecutive_iters_wo_improvement + 1
              /\ IF PatienceExhausted(n_consecutive_iters_wo_improvement + 1)
                 THEN pc' = "return" /\ i' = i
                 ELSE pc' = "sweep" /\ i' = 0
         ELSE /\ all_pair_distance' = cur
              /\ window_locs' = cur_window_locs
              /\ n_consecutive_iters_wo_improvement' = 0
              /\ pc' = "sweep"
              /\ i' = 0
    /\ UNCHANGED <<entry, call_site, shape_data, motif_len, seed_motif, extent,
                   start_locs, end_locs, cur_window_locs, score_table, py_rng,
                   main_vars, scan_vars>>

\* line 138, for a direct call: the caller holds window_locs
FinderReturn ==
    /\ pc = "return"
    /\ entry = "finder"
    /\ pc' = "returned"
    /\ UNCHANGED <<entry, call_site, finder_vars, py_rng, main_vars,
                   scan_vars>>

\* ------------------------------------------------------------ main

\* a variant whose offsets are those of the extents plus one
len_offsets_Shifted == <<0, 1, 2, 3, 4, 5>>

\* line 298
len_offsets == <<0, 0, 1, 2, 3, 4>>

\* a variant that hands over the result of the call before
ExtensionSeed_Previous(sets) == sets[Len(sets)]

\* line 292: the seed main hands to the extension call
ExtensionSeed(sets) == At(sets, 0)

\* p is an index a python list of this length has: a negative index
\* counts from the end
IndexOk(seq, p) == p < Len(seq) /\ p >= 0 - Len(seq)

\* line 305 reads every value of the row of sequence s without IndexError
RowReadable(locs, len, s) ==
    \A j \in 0..(len - 1) : IndexOk(shape_data[s], locs[s] + j)

Readable(locs, len) == \A s \in 1..n_seq : RowReadable(locs, len, s)

\* lines 303-306: the rows written for one result set, one per sequence.
\* The values are written one by one, so when an index raises IndexError
\* the rows before it and the values of its row before it are in the file:
\* a row shorter than len is one that was cut by the error (it is left out
\* when no value of it was written).
InstanceRows(locs, len) ==
    IF Readable(locs, len)
    THEN [s \in 1..n_seq |->
             [j \in 1..len |-> At(shape_data[s], locs[s] + j - 1)]]
    ELSE LET fs == CHOOSE s \in 1..n_seq :
                       /\ ~ RowReadable(locs, len, s)
                       /\ \A t \in 1..(s - 1) : RowReadable(locs, len, t)
             fj == CHOOSE j \in 0..(len - 1) :
                       /\ ~ IndexOk(shape_data[fs], locs[fs] + j)
                       /\ \A h \in 0..(j - 1) : IndexOk(shape_data[fs], locs[fs] + h)
         IN  [s \in 1..(fs - 1) |->
                 [j \in 1..len |-> At(shape_data[s], locs[s] + j - 1)]]
             \o (IF fj > 0
                 THEN << [j \in 1..fj |-> At(shape_data[fs], locs[fs] + j - 1)] >>
                 ELSE << >>)

\* lines 298-306: the blocks written for the iteration's result sets, each
\* a header (iter_count + 1, cur_motif_len) and its rows; the writing ends
\* with the first block that raises IndexError
InstanceBlocks(sets) ==
    LET bad == {b \in 1..Len(sets) :
                    ~ Readable(sets[b], motif_len + len_offsets[b])}
        last == IF bad = {} THEN Len(sets)
                ELSE CHOOSE b \in bad : \A c \in bad : b <= c
    IN  [b \in 1..last |->
            [iter |-> iter_count + 1,
             cur_motif_len |-> motif_len + len_offsets[b],
             rows |-> InstanceRows(sets[b], motif_len + len_offsets[b])]]

\* lines 247-284: the arguments are read, the output file opened and
\* Python's random module seeded with output_dir
Main ==
    /\ pc = "main"
    /\ py_rng' = PySeed(output_dir)
    /\ motif_instance_file' = <<>>
    /\ iter_count' = 0
    /\ pc' = "iter"
    /\ UNCHANGED <<entry, call_site, finder_vars, output_dir, max_iter,
                   extended_motif_window_locs, run_no, prev_results,
                   scan_vars>>

\* lines 286-288 and 311-312: the next motif iteration calls
\* gibbs_motif_finder, which calls the extension finder with no seed and
\* extent 0 (line 141); after the last iteration the file is closed
MainIter ==
    /\ pc = "iter"
    /\ IF iter_count < max_iter
       THEN /\ seed_motif' = <<>>
            /\ extent' = 0
            /\ call_site' = 288
            /\ pc' = "enter"
       ELSE /\ pc' = "exit"
            /\ UNCHANGED <<seed_motif, extent, call_site>>
    /\ UNCHANGED <<entry, shape_data, motif_len, start_locs, end_locs,
                   window_locs, cur_window_locs, i, score_table,
                   all_pair_distance, n_consecutive_iters_wo_improvement,
                   py_rng, main_vars, scan_vars>>

\* lines 288-292: gibbs_motif_finder has returned; its result starts the
\* list of result sets and the first extension call (extent 0) is made
MainMotifFound ==
    /\ pc = "return"
    /\ call_site = 288
    /\ extended_motif_window_locs' = <<window_locs>>
    /\ extent' = 0
    /\ seed_motif' = ExtensionSeed(<<window_locs>>)
    /\ call_site' = 292
    /\ pc' = "enter"
    /\ UNCHANGED <<entry, shape_data, motif_len, start_locs, end_locs,
                   window_locs, cur_window_locs, i, score_table,
                   all_pair_distance, n_consecutive_iters_wo_improvement,
                   py_rng, output_dir, max_iter, iter_count,
                   motif_instance_file, run_no, prev_results, scan_vars>>

\* lines 291-293: an extension call has returned; its result is appended
\* and the call for the next extent is made, or the loop ends
MainExtended ==
    /\ pc = "return"
    /\ call_site = 292
    /\ extended_motif_window_locs' =
           Append(extended_motif_window_locs, window_locs)
    /\ IF extent + 1 < NumExtents
       THEN /\ extent' = extent + 1
            /\ seed_motif' = ExtensionSeed(extended_motif_window_locs')
            /\ pc' = "enter"
       ELSE /\ pc' = "write"
            /\ UNCHANGED <<extent, seed_motif>>
    /\ UNCHANGED <<entry, call_site, shape_data, motif_len, start_locs,
                   end_locs, window_locs, cur_window_locs, i, score_table,
                   all_pair_distance, n_consecutive_iters_wo_improvement,
                   py_rng, output_dir, max_iter, iter_count,
                   motif_instance_file, run_no, prev_results, scan_vars>>

\* lines 298-306: the motif instances of the iteration's result sets are
\* written; then the for loop of line 286 goes on.  IndexError at line 305
\* ends the run with what was written before it in the file.
MainWrite ==
    /\ pc = "write"
    /\ IF \A b \in 1..Len(extended_motif_window_locs) :
              Readable(extended_motif_window_locs[b], motif_len + len_offsets[b])
       THEN /\ iter_count' = iter_count + 1
            /\ pc' = "iter"
       ELSE /\ pc' = "error"
            /\ UNCHANGED iter_count
    /\ motif_instance_file' =
           motif_instance_file \o InstanceBlocks(extended_motif_window_locs)
    /\ UNCHANGED <<entry, call_site, finder_vars, py_rng, output_dir,
                   max_iter, extended_motif_window_locs, run_no, prev_results,
                   scan_vars>>

\* The program is run a second time with the same arguments: a new process,
\* whose locals are fresh and whose generator is unseeded until main seeds
\* it.  The first run's result sets are kept for comparison.
Rerun ==
    /\ pc = "exit"
    /\ run_no = 1
    /\ run_no' = 2
    /\ prev_results' = extended_motif_window_locs
    /\ extended_motif_window_locs' = <<>>
    /\ motif_instance_file' = <<>>
    /\ iter_count' = 0
    /\ seed_motif' = <<>>
    /\ extent' = 0
    /\ start_locs' = <<>>
    /\ end_locs' = <<>>
    /\ window_locs' = <<>>
    /\ cur_window_locs' = <<>>
    /\ i' = 0
    /\ score_table' = <<>>
    /\ all_pair_distance' = Inf
    /\ n_consecutive_iters_wo_improvement' = 0
    /\ call_site' = 0
    /\ py_rng' = PyUnseeded
    /\ pc' = "main"
    /\ UNCHANGED <<entry, shape_data, motif_len, output_dir, max_iter,
                   scan_vars>>

\* ------------------------------------------------------------ scanner

\* An interval end mean -/+ sigma_count * std is kept as the exact number
\* (num + sign * sqrt(rad)) / den it approximates: with n values of sum S
\* and sum of squares Q, the mean is S / n and the population standard
\* deviation (np.std) is sqrt(n * Q - S * S) / n.  sigma_count is a natural
\* number here.  The code holds the end as a float64; the field tie says
\* how that float compares with a data value lying exactly on the exact
\* end: 0 when they are equal, 1 when the float is above it, -1 when below.

\* v lies exactly on the exact end
OnEnd(v, e) ==
    LET d == v * e.den - e.num IN
    /\ d * d = e.rad
    /\ IF e.sign > 0 THEN d >= 0 ELSE d <= 0

\* data_val < e
ValueBelow(v, e) ==
    LET d == v * e.den - e.num IN
    IF OnEnd(v, e) THEN e.tie > 0
    ELSE IF e.sign > 0 THEN d < 0 \/ d * d < e.rad
                       ELSE d < 0 /\ d * d > e.rad

\* data_val > e
ValueAbove(v, e) ==
    LET d == v * e.den - e.num IN
    IF OnEnd(v, e) THEN e.tie < 0
    ELSE IF e.sign > 0 THEN d > 0 /\ d * d > e.rad
                       ELSE d > 0 \/ d * d < e.rad

RECURSIVE GCD(_, _)
GCD(a, b) == IF b = 0 THEN (IF a < 0 THEN 0 - a ELSE a) ELSE GCD(b, a % b)

RECURSIVE PowerOfTwo(_)
PowerOfTwo(m) == m = 1 \/ (m > 1 /\ m % 2 = 0 /\ PowerOfTwo(m \div 2))

\* a / n is a binary fraction: a float64 holds it exactly (the numbers here
\* are small)
Dyadic(a, n) == PowerOfTwo(n \div GCD(a, n))

IsSquare(x) == \E r \in 0..x : r * r = x

Isqrt(x) == CHOOSE r \in 0..x : r * r = x

\* The rounding of the float64 arithmetic of lines 155-159.  When the mean
\* and the standard deviation are binary fractions every step is exact.
\* When the exact end is irrational no data value lies on it.  Otherwise
\* the computed end is the exact one or a neighbouring float, which one
\* depends on the order numpy adds and multiplies in: all three are
\* outcomes.
Ties(S, n, R, k) ==
    IF \/ /\ Dyadic(S, n)
          /\ k = 0 \/ (IsSquare(R) /\ Dyadic(Isqrt(R), n))
       \/ ~ IsSquare(k * k * R)
    THEN {0} ELSE {0 - 1, 0, 1}

\* lines 144-166: the ranges the call can return, one pair (min_val,
\* max_val) per position of the window
compute_ranges(data, locs, size, k) ==
    LET n == Len(data)
        vals_at(p) == [j \in 1..n |-> data[j][locs[j] + p]]
        S(p) == SumOver(LAMBDA j : vals_at(p)[j], n)
        Q(p) == SumOver(LAMBDA j : vals_at(p)[j] * vals_at(p)[j], n)
        R(p) == n * Q(p) - S(p) * S(p)
        Pairs(p) ==
            {<< [num |-> S(p), sign |-> 0 - 1, rad |-> k * k * R(p), den |-> n,
                 tie |-> lo],
                [num |-> S(p), sign |-> 1, rad |-> k * k * R(p), den |-> n,
                 tie |-> hi] >> :
                 <<lo, hi>> \in {t \in Ties(S(p), n, R(p), k) \X Ties(S(p), n, R(p), k) :
                                    k * k * R(p) = 0 => t[1] = t[2]}}
    IN  {r \in [1..size -> UNION {Pairs(p) : p \in 1..size}] :
            \A p \in 1..size : r[p] \in Pairs(p)}

\* a variant whose interval is open
does_motif_match_window_Strict(range, window) ==
    IF Len(window) # Len(range)
    THEN [raised |-> TRUE, value |-> FALSE]
    ELSE [raised |-> FALSE,
          value |-> \A p \in 1..Len(window) :
                        /\ ValueAbove(window[p], range[p][1])
                        /\ ValueBelow(window[p], range[p][2])]

\* lines 168-179: AssertionError (raised) for a window whose length is not
\* the motif's (line 170); else False at the first value outside its
\* interval, True when there is none
does_motif_match_window(range, window) ==
    IF Len(window) # Len(range)
    THEN [raised |-> TRUE, value |-> FALSE]
    ELSE [raised |-> FALSE,
          value |-> \A p \in 1..Len(window) :
                        ~ (\/ ValueBelow(window[p], range[p][1])
                           \/ ValueAbove(window[p], range[p][2]))]

\* a variant that leaves out the last offset
list_motif_occurrences_Short(cur_shape_data, range) ==
    LET offsets == Range(0, Len(cur_shape_data) - Len(range))
        match(o) == does_motif_match_window(
                        range, Slice(cur_shape_data, o, Len(range)))
    IN  [raised |-> \E x \in 1..Len(offsets) : match(offsets[x]).raised,
         list |-> SelectSeq(offsets, LAMBDA o : match(o).value)]

\* lines 181-190: the offsets 0..seq_len - window_size are tested in
\* ascending order; an exception of does_motif_match_window goes through
list_motif_occurrences(cur_shape_data, range) ==
    LET offsets == Range(0, Len(cur_shape_data) - Len(range) + 1)
        match(o) == does_motif_match_window(
                        range, Slice(cur_shape_data, o, Len(range)))
    IN  [raised |-> \E x \in 1..Len(offsets) : match(offsets[x]).raised,
         list |-> SelectSeq(offsets, LAMBDA o : match(o).value)]

\* lines 192-213: the count, and the dictionary keyed by sequence id; line
\* 200 reads shape_data[0] and raises IndexError when there is no sequence
count_occurrences(range, data) ==
    IF Len(data) = 0
    THEN [raised |-> TRUE, count |-> 0, dict |-> <<>>]
    ELSE LET lst == [s \in 1..Len(data) |->
                        list_motif_occurrences(data[s], range)]
         IN  [raised |-> \E s \in 1..Len(data) : lst[s].raised,
              count |-> SumOver(LAMBDA s : IF Len(lst[s].list) > 0 THEN 1 ELSE 0,
                                Len(data)),
              dict |-> [s \in 0..(Len(data) - 1) |-> lst[s + 1].list]]

\* five one-value profiles with mean 22/5 and standard deviation 6/5: the
\* value 2 lies on the lower end for sigma_count = 2
TieSet == << <<2>>, <<5>>, <<5>>, <<5>>, <<5>> >>

\* the arguments of compute_ranges and count_occurrences: a profile set, a
\* window location inside every profile, a multiplier, and the profile set
\* that is scanned (the same one, another, or one without a profile)
ScanSets == {SmallSet, TripleSet, SingleSet, TieSet}

\* a set that is only scanned: a flat profile inside the ranges of SmallSet
\* and one outside all ranges
MixedSet == << <<1, 1, 1, 1>>, <<9, 9, 9, 9>> >>

ScanInputs ==
    UNION {
        {[shape_data |-> P, motif_len |-> w, locs |-> l, sigma_count |-> k,
          scan_data |-> D] :
            l \in [1..Len(P) -> 0..(Len(P[1]) - w)], k \in 0..MaxSigma,
            D \in ScanSets \cup {MixedSet, <<>>}} :
        P \in ScanSets, w \in 1..2}

ComputeRanges ==
    /\ pc = "ranges"
    /\ motif_as_range' \in
           compute_ranges(shape_data, motif_window_locs, window_size, sigma_count)
    /\ pc' = "count"
    /\ UNCHANGED <<entry, call_site, finder_vars, py_rng, main_vars, scan_data,
                   motif_window_locs, sigma_count, occurrence_count,
                   occurrence_dict>>

CountOccurrences ==
    /\ pc = "count"
    /\ LET r == count_occurrences(motif_as_range, scan_data) IN
         IF r.raised
         THEN /\ pc' = "error"
              /\ UNCHANGED <<occurrence_count, occurrence_dict>>
         ELSE /\ occurrence_count' = r.count
              /\ occurrence_dict' = r.dict
              /\ pc' = "counted"
    /\ UNCHANGED <<entry, call_site, finder_vars, py_rng, main_vars, scan_data,
                   motif_window_locs, sigma_count, motif_as_range>>

\* ------------------------------------------------------------ behaviours

\* a direct call of gibbs_motif_extension_finder, or a run of main
Init ==
    /\ \/ /\ entry = "finder"
          /\ pc = "enter"
          /\ max_iter = 0
          /\ output_dir = ""
          /\ \E a \in FinderInputs :
               /\ shape_data = a.shape_data
               /\ motif_len = a.motif_len
               /\ seed_motif = a.seed_motif
               /\ extent = a.extent
       \/ /\ entry = "main"
          /\ pc = "main"
          /\ seed_motif = <<>>
          /\ extent = 0
          /\ output_dir \in OutputDirs
          /\ \E a \in MainInputs :
               /\ shape_data = a.shape_data
               /\ motif_len = a.motif_len
               /\ max_iter = a.max_iter
    /\ call_site = 0
    /\ start_locs = <<>>
    /\ end_locs = <<>>
    /\ window_locs = <<>>
    /\ cur_window_locs = <<>>
    /\ i = 0
    /\ score_table = <<>>
    /\ all_pair_distance = Inf
    /\ n_consecutive_iters_wo_improvement = 0
    /\ py_rng = PyUnseeded
    /\ iter_count = 0
    /\ extended_motif_window_locs = <<>>
    /\ motif_instance_file = <<>>
    /\ run_no = 1
    /\ prev_results = <<>>
    /\ scan_data = <<>>
    /\ motif_window_locs = <<>>
    /\ sigma_count = 0
    /\ motif_as_range = <<>>
    /\ occurrence_count = 0
    /\ occurrence_dict = <<>>

Next ==
    \/ FinderBounds
    \/ InitialDraw
    \/ Resample
    \/ Decide
    \/ FinderReturn
    \/ Main
    \/ MainIter
    \/ MainMotifFound
    \/ MainExtended
    \/ MainWrite

Spec == Init /\ [][Next]_vars

\* the same, with a second run of the program after the first has ended
NextRerun ==
    \/ Next
    \/ Rerun

SpecRerun == Init /\ [][NextRerun]_vars

\* the program is one thread that runs until it returns or raises: a step
\* that can be taken is taken
FairSpec == Spec /\ WF_vars(Next)

\* compute_ranges on a window location set, then count_occurrences
InitScan ==
    /\ entry = "scan"
    /\ pc = "ranges"
    /\ \E a \in ScanInputs :
         /\ shape_data = a.shape_data
         /\ motif_len = a.motif_len
         /\ motif_window_locs = a.locs
         /\ sigma_count = a.sigma_count
         /\ scan_data = a.scan_data
    /\ seed_motif = <<>>
    /\ extent = 0
    /\ max_iter = 0
    /\ call_site = 0
    /\ start_locs = <<>>
    /\ end_locs = <<>>
    /\ window_locs = <<>>
    /\ cur_window_locs = <<>>
    /\ i = 0
    /\ score_table = <<>>
    /\ all_pair_distance = Inf
    /\ n_consecutive_iters_wo_improvement = 0
    /\ output_dir = ""
    /\ py_rng = PyUnseeded
    /\ iter_count = 0
    /\ extended_motif_window_locs = <<>>
    /\ motif_instance_file = <<>>
    /\ run_no = 1
    /\ prev_results = <<>>
    /\ motif_as_range = <<>>
    /\ occurrence_count = 0
    /\ occurrence_dict = <<>>

NextScan ==
    \/ ComputeRanges
    \/ CountOccurrences

SpecScan == InitScan /\ [][NextScan]_vars

\* ------------------------------------------------------------ claims

\* the finder is running: its locals hold a window location per sequence
InSweeps == pc \in {"sweep", "decide"}

Stopped == pc \in {"return", "returned"}

\* C1 (as stated): every run of the finder terminates, whatever the random
\* draws are: a call that is entered returns or raises.
C1_AlwaysTerminates == (pc = "enter") ~> (pc \in {"return", "error"})

\* C1 (amended): every sweep stops the run, resets the counter of
\* non-improving sweeps to 0, or raises it by one to less than 10; the
\* counter never exceeds 10 and a run whose counter is 10 has stopped.  So
\* at most 10 sweeps follow the last reset.
C1_BoundedPatience ==
    /\ [](n_consecutive_iters_wo_improvement \in
              0..max_consecutive_iters_wo_improvement)
    /\ [](n_consecutive_iters_wo_improvement
              = max_consecutive_iters_wo_improvement => ~ InSweeps)
    /\ [][pc = "decide" =>
            \/ pc' = "return"
            \/ n_consecutive_iters_wo_improvement' = 0
            \/ /\ n_consecutive_iters_wo_improvement' =
                      n_consecutive_iters_wo_improvement + 1
               /\ n_consecutive_iters_wo_improvement' <
                      max_consecutive_iters_wo_improvement]_vars

\* a run that stopped on its 10th consecutive negligible improvement
C1_Witness ==
    /\ pc = "return"
    /\ n_consecutive_iters_wo_improvement = 10
    /\ all_pair_distance = AllPairDistance(window_locs)

\* C9: after every sweep the decision follows the three rules in order:
\* (1) curScore = bestScore: stop, returning the post-sweep set; (2) else
\* curScore <= bestScore and curScore > bestScore * (1 - 1e-5): adopt set
\* and score, count the sweep, stop exactly when the count is 10; (3) else
\* adopt set and score and reset the count.  A run starts with bestScore
\* infinite and the count 0, the count stays in 0..10, and the set returned
\* is the one the last sweep produced.
C9_TransitionRules ==
    /\ [](pc = "draw" =>
            all_pair_distance = Inf /\ n_consecutive_iters_wo_improvement = 0)
    /\ [](n_consecutive_iters_wo_improvement \in 0..10)
    /\ [](pc = "return" => window_locs = cur_window_locs)
    /\ [][pc = "decide" =>
            LET curScore == AllPairDistance(cur_window_locs)
                bestScore == all_pair_distance
                count == n_consecutive_iters_wo_improvement
                adopted == /\ window_locs' = cur_window_locs
                           /\ all_pair_distance' = curScore
            IN  IF bestScore # Inf /\ curScore = bestScore
                THEN /\ pc' = "return"
                     /\ window_locs' = cur_window_locs
                     /\ n_consecutive_iters_wo_improvement' = count
                ELSE IF /\ bestScore # Inf
                        /\ curScore <= bestScore
                        /\ (bestScore - curScore) * 100000 < bestScore
                THEN /\ adopted
                     /\ n_consecutive_iters_wo_improvement' = count + 1
                     /\ pc' = IF count + 1 = 10 THEN "return" ELSE "sweep"
                ELSE /\ adopted
                     /\ n_consecutive_iters_wo_improvement' = 0
                     /\ pc' = "sweep"]_vars

\* a run that converged by exact equality after negligible improvements
C9_Witness ==
    /\ pc = "return"
    /\ n_consecutive_iters_wo_improvement \in 1..9
    /\ all_pair_distance = AllPairDistance(window_locs)

\* the locations sequence s (Python index) must be scored against: those
\* resampled in this sweep before it, and for the later sequences those held
\* when the sweep began
LiveLocs(s) ==
    [k \in 1..n_seq |-> IF k - 1 < s THEN cur_window_locs[k] ELSE window_locs[k]]

\* C10: a sweep resamples the sequences in ascending order against the
\* live state: sequence i is scored against the locations the earlier
\* sequences were resampled to in this sweep and the locations the later
\* ones held at the end of the previous sweep; its own location does not
\* enter its score; the resample changes its location only.
C10_LiveState ==
    /\ [](pc = "sweep" =>
            /\ i \in 0..(n_seq - 1)
            /\ \A k \in 1..n_seq : k - 1 >= i => cur_window_locs[k] = window_locs[k])
    /\ [](pc = "decide" => i = n_seq)
    /\ [][pc = "sweep" =>
            /\ i' = i + 1
            /\ window_locs' = window_locs
            /\ score_table' = ProbabilityTable(ScoreTable(i, LiveLocs(i)))
            /\ \A v \in 0..seq_len :
                 score_table' = ProbabilityTable(
                     ScoreTable(i, [LiveLocs(i) EXCEPT ![i + 1] = v]))
            /\ \A k \in 1..n_seq : k - 1 # i => cur_window_locs'[k] = cur_window_locs[k]
            /\ \E c \in 1..Len(CandidateTable(i)) :
                 cur_window_locs'[i + 1] = CandidateTable(i)[c]]_vars
    /\ [][pc = "decide" /\ pc' = "sweep" => i' = 0]_vars

\* the middle sequence of three has just been scored, after the first was
\* moved by this sweep: the snapshot would have given other scores
C10_Witness ==
    /\ pc = "sweep"
    /\ n_seq = 3
    /\ i = 2
    /\ cur_window_locs[1] # window_locs[1]
    /\ score_table # ProbabilityTable(ScoreTable(1, window_locs))

\* C2 (as stated): two runs of the program with the same output_dir (the
\* value given to random.seed) and the same inputs end with identical
\* window location sets.
C2_Reproducible ==
    (run_no = 2 /\ pc = "exit") => extended_motif_window_locs = prev_results

\* C3 (as stated): the seed of every extension call is the result of the
\* call made immediately before it, the last set of the list.
C3_ChainedSeeds ==
    (pc = "enter" /\ call_site = 292) =>
        seed_motif = extended_motif_window_locs[Len(extended_motif_window_locs)]

\* C3 (amended): the extension calls are made for extent 0, 1, 2, 3, 4 in
\* this order, and the seed of every one of them is the result of the
\* unseeded finder, the first set of the list; the results of the extension
\* calls are appended to the list and seed nothing.
C3_SeedIsFirstResult ==
    /\ []((pc = "enter" /\ call_site = 292) =>
            /\ extent \in 0..4
            /\ Len(extended_motif_window_locs) = extent + 1
            /\ seed_motif = extended_motif_window_locs[1])
    /\ [][(pc = "return" /\ call_site = 288) =>
            /\ extended_motif_window_locs' = <<window_locs>>
            /\ seed_motif' = window_locs
            /\ extent' = 0]_vars
    /\ [][(pc = "return" /\ call_site = 292) =>
            /\ extended_motif_window_locs' =
                   extended_motif_window_locs \o <<window_locs>>
            /\ pc' = "enter" => (extent' = extent + 1 /\ seed_motif' = seed_motif)]_vars

\* an extension call for extent >= 1 whose seed is not the result of the
\* call before it
C3_Witness ==
    /\ pc = "enter"
    /\ call_site = 292
    /\ extent >= 1
    /\ extended_motif_window_locs[Len(extended_motif_window_locs)]
           # extended_motif_window_locs[1]
    /\ seed_motif = extended_motif_window_locs[1]

\* C4 (as stated): with a window size w <= L the driving routine raises no
\* error.
C4_NoErrorUpToL ==
    (entry = "main" /\ motif_len <= seq_len) => pc # "error"

\* the widths of the six result sets of an iteration
C4_Widths == <<0, 0, 1, 2, 3, 4>>

\* C4 (amended): with w + 4 <= L every motif iteration completes without
\* error and yields exactly 6 result sets, of widths w, w, w+1, w+2, w+3,
\* w+4 in this order, every window of which lies inside its profile; the
\* file gets one block per set, with a row of that width per sequence.  With
\* L - 4 < w <= L the run raises an error in the extension call whose window
\* size w + extent exceeds L.
C4_SixSetsWhenRoomForExtension ==
    /\ []((entry = "main" /\ motif_len + 4 <= seq_len) => pc # "error")
    /\ []((entry = "main" /\ pc = "error") =>
            (motif_len + extent > seq_len /\ call_site = 292))
    /\ []((entry = "main" /\ pc = "write") =>
            /\ Len(extended_motif_window_locs) = 6
            /\ \A b \in 1..6 : \A s \in 1..n_seq :
                 /\ extended_motif_window_locs[b][s] >= 0
                 /\ extended_motif_window_locs[b][s] + motif_len + C4_Widths[b]
                        <= seq_len)
    /\ [](entry = "main" =>
            /\ Len(motif_instance_file) = 6 * iter_count
            /\ \A b \in 1..Len(motif_instance_file) :
                 LET block == motif_instance_file[b]
                     width == motif_len + C4_Widths[((b - 1) % 6) + 1]
                 IN  /\ block.cur_motif_len = width
                     /\ block.iter = ((b - 1) \div 6) + 1
                     /\ Len(block.rows) = n_seq
                     /\ \A s \in 1..n_seq : Len(block.rows[s]) = width)

\* a run of main that wrote the six blocks of an iteration and ended
C4_Witness ==
    /\ entry = "main"
    /\ pc = "exit"
    /\ Len(motif_instance_file) >= 6
    /\ motif_instance_file[6].cur_motif_len = motif_len + 4

\* the finder was called with a seed for every sequence
Seeded == Len(seed_motif) = n_seq

\* the inclusive range the spec gives for the location of sequence k
\* (1-based) in a seeded run
SeededRange(k) ==
    Max(0, seed_motif[k] - (motif_len + extent))
        .. Min(seq_len - (motif_len + extent), seed_motif[k] + (motif_len + extent))

\* C5: in a seeded run every window location, after the initial draw, after
\* every resample and in the returned set, lies in
\* [max(0, seed - (w+e)), min(L - (w+e), seed + (w+e))]; so it is within w+e
\* of the seed offset and its window of size w+e lies inside the profile.
C5_WithinSearchBounds ==
    (Seeded /\ (InSweeps \/ Stopped)) =>
        \A k \in 1..n_seq :
            \A loc \in {window_locs[k], cur_window_locs[k]} :
                /\ loc \in SeededRange(k)
                /\ loc - seed_motif[k] <= motif_len + extent
                /\ seed_motif[k] - loc <= motif_len + extent
                /\ 0 <= loc
                /\ loc + motif_len + extent <= seq_len

\* a seeded direct call has returned a set that differs from the seed, one
\* location of which is at the end of its range
C5_Witness ==
    /\ pc = "returned"
    /\ Seeded
    /\ window_locs # seed_motif
    /\ \E k \in 1..n_seq :
         /\ seed_motif[k] + 2 * (motif_len + extent) >= seq_len
         /\ window_locs[k] = seq_len - (motif_len + extent)

\* the search bounds of some sequence are an empty range
Degenerate == \E k \in 1..n_seq : start_locs[k] > end_locs[k]

\* C6: when the search bounds of some sequence have start > end the call
\* ends in an error: the only locations drawn are those of the sequences
\* before the first such sequence, each from its own range; no sweep is run
\* and nothing is returned.  Nothing follows the error.
C6_DegenerateBoundsSignalled ==
    /\ [][(pc = "draw" /\ Degenerate) =>
            /\ pc' = "error"
            /\ Len(window_locs') < n_seq
            /\ start_locs[Len(window_locs') + 1] > end_locs[Len(window_locs') + 1]
            /\ \A k \in 1..Len(window_locs') :
                 /\ start_locs[k] <= window_locs'[k]
                 /\ window_locs'[k] <= end_locs[k]]_vars
    /\ []((InSweeps \/ Stopped) => ~ Degenerate)
    /\ [](pc = "error" => Degenerate)
    /\ [][pc = "error" => pc' = "error"]_vars

\* a direct call with a window that fits the profiles and a seed for every
\* sequence ended in the error, after the first sequence's draw
C6_Witness ==
    /\ pc = "error"
    /\ entry = "finder"
    /\ Seeded
    /\ motif_len + extent <= seq_len
    /\ Len(window_locs) = 1
    /\ start_locs[2] > end_locs[2]

\* the sum and the sum of squares of the values the motif windows hold at
\* position p (1-based), one value per profile of the set
ColumnSum(p) ==
    SumOver(LAMBDA j : shape_data[j][motif_window_locs[j] + p], n_seq)

ColumnSquares(p) ==
    SumOver(LAMBDA j : shape_data[j][motif_window_locs[j] + p]
                           * shape_data[j][motif_window_locs[j] + p], n_seq)

\* the square of the distance of v from the mean of position p and the
\* square of sigma_count standard deviations, both times n * n
Deviation(v, p) ==
    (n_seq * v - ColumnSum(p)) * (n_seq * v - ColumnSum(p))

Allowance(p) ==
    sigma_count * sigma_count
        * (n_seq * ColumnSquares(p) - ColumnSum(p) * ColumnSum(p))

\* every value of the window at offset o (0-based) of the profile lies
\* within sigma_count standard deviations of the mean of its position, the
\* ends included
Matches(profile, o) ==
    \A p \in 1..motif_len : Deviation(profile[o + p], p) <= Allowance(p)

\* the same with the ends excluded
MatchesInside(profile, o) ==
    \A p \in 1..motif_len : Deviation(profile[o + p], p) < Allowance(p)

\* every end of the range was computed without rounding
ExactRange ==
    \A p \in 1..Len(motif_as_range) :
        motif_as_range[p][1].tie = 0 /\ motif_as_range[p][2].tie = 0

\* the offsets held by a list
Offsets(lst) == {lst[x] : x \in 1..Len(lst)}

\* C7 (as stated): scanning the profiles of the set the ranges were built
\* from reports, for every sequence, an occurrence at its own window
\* location.
C7_OwnWindowsReported ==
    (pc = "counted" /\ scan_data = shape_data) =>
        \A s \in 1..n_seq : motif_window_locs[s] \in Offsets(occurrence_dict[s - 1])

\* C7 (amended): the own window location of sequence i is reported when
\* every value of its window lies less than k standard deviations from the
\* mean of its position over the set's windows, and is not reported when
\* some value lies further; a value at exactly k standard deviations is
\* inside when the ends are computed without rounding.  The own window is
\* reported for every sequence when the set has one profile, and when it
\* has two and k >= 2.
C7_OwnWindowReportedIffWithinSigma ==
    (pc = "counted" /\ scan_data = shape_data) =>
        /\ \A s \in 1..n_seq :
             LET reported ==
                     motif_window_locs[s] \in Offsets(occurrence_dict[s - 1])
             IN  /\ MatchesInside(shape_data[s], motif_window_locs[s]) => reported
                 /\ reported => Matches(shape_data[s], motif_window_locs[s])
                 /\ ExactRange =>
                        (reported <=> Matches(shape_data[s], motif_window_locs[s]))
        /\ (n_seq = 1 \/ (n_seq = 2 /\ sigma_count >= 2)) =>
             \A s \in 1..n_seq :
                 motif_window_locs[s] \in Offsets(occurrence_dict[s - 1])

\* with k = 1 and three profiles, the own window of one sequence is
\* reported and that of another is not
C7_Witness ==
    /\ pc = "counted"
    /\ scan_data = shape_data
    /\ n_seq = 3
    /\ sigma_count = 1
    /\ \E s, t \in 1..n_seq :
         /\ motif_window_locs[s] \in Offsets(occurrence_dict[s - 1])
         /\ motif_window_locs[t] \notin Offsets(occurrence_dict[t - 1])

\* v lies in the interval of a pair (min_val, max_val) of the range, the
\* ends included: not less than the first (mean - k * std) and not more
\* than the second (mean + k * std), as the range holds them
InInterval(v, pair) ==
    LET d == v * pair[1].den - pair[1].num
        onLow == d <= 0 /\ d * d = pair[1].rad
        onHigh == d >= 0 /\ d * d = pair[2].rad
    IN  /\ d * d <= pair[1].rad
        /\ onLow => pair[1].tie <= 0
        /\ onHigh => pair[2].tie >= 0

\* C8: count_occurrences returns (c, m): m has an entry for every sequence
\* id 0..n-1; m[i] holds, in ascending order, exactly the offsets o in
\* 0..len(profile_i)-w at which every value of profile_i[o..o+w) lies in its
\* interval, ends included; c is the number of ids whose list is not empty.
C8_CountOccurrencesResult ==
    pc = "counted" =>
        /\ DOMAIN occurrence_dict = 0..(Len(scan_data) - 1)
        /\ \A s \in 0..(Len(scan_data) - 1) :
             LET lst == occurrence_dict[s]
                 profile == scan_data[s + 1]
             IN  /\ \A x \in 1..(Len(lst) - 1) : lst[x] < lst[x + 1]
                 /\ Offsets(lst) =
                        {o \in 0..(Len(profile) - motif_len) :
                            \A p \in 1..motif_len :
                                InInterval(profile[o + p], motif_as_range[p])}
        /\ occurrence_count =
               Cardinality({s \in 0..(Len(scan_data) - 1) :
                                Len(occurrence_dict[s]) > 0})

\* a scan that reported two overlapping matches in one profile, the last
\* offset of a profile, and no match in another profile
C8_Witness ==
    /\ pc = "counted"
    /\ motif_len = 2
    /\ \E s \in DOMAIN occurrence_dict :
         \E x \in 1..(Len(occurrence_dict[s]) - 1) :
             occurrence_dict[s][x + 1] = occurrence_dict[s][x] + 1
    /\ \E s \in DOMAIN occurrence_dict :
         Len(scan_data[s + 1]) - motif_len \in Offsets(occurrence_dict[s])
    /\ \E s \in DOMAIN occurrence_dict : occurrence_dict[s] = <<>>
    /\ occurrence_count < Len(scan_data)

====
